---- MODULE Spec2Model ----
(***************************************************************************)
(* A model of aimock (src/main.go): a mock of an OpenAI-style HTTP API.    *)
(*                                                                         *)
(* Conventions                                                             *)
(*   - durations are whole ticks (1 tick = 1ms);                           *)
(*   - model names are strings; message contents and embedding inputs are  *)
(*     sequences of byte values (ASCII), so that len() and the per-rune    *)
(*     hash are computed, not assumed;                                     *)
(*   - a float64 drawn by rand.Float64() is k / FloatSteps with            *)
(*     k \in 0..FloatSteps-1; a normalised embedding component is kept     *)
(*     exactly, as the pair (num, den2) standing for num / sqrt(den2),     *)
(*     or as NaN;                                                          *)
(*   - wall-clock fields (created) are not part of the model.              *)
(***************************************************************************)
EXTENDS Integers, Sequences, FiniteSets, TLC

VARIABLES
    port,        \* flag -port                       (main.go:18)
    minLatency,  \* flag -min-latency                (main.go:19)
    maxLatency,  \* flag -max-latency                (main.go:20)
    configFile,  \* flag -config                     (main.go:21)
    config,      \* the *Config handed to setupRouter (main.go:35-61)
    started,     \* TRUE once main has built the router
    globalRand,  \* state of math/rand's process-wide source
    reqs,        \* in-flight requests, one goroutine each
    exchange,    \* the last handler call: request body and response written
    embedLog     \* history: the last vectors generateMockEmbedding returned,
                 \* per input string

vars == <<port, minLatency, maxLatency, configFile, config, started,
          globalRand, reqs, exchange, embedLog>>

flagVars == <<port, minLatency, maxLatency, configFile>>

(***************************************************************************)
(* Bounds                                                                  *)
(***************************************************************************)
NumRequests == 2      \* requests in flight in the server specification
EmbeddingDims == 2    \* stands for the 1536 of main.go:369
IdLength == 1         \* stands for the 29 of main.go:278
MaxCalls == 2         \* calls remembered per input in embedLog

Slots == 1..NumRequests

(***************************************************************************)
(* Program constants                                                       *)
(***************************************************************************)
defaultPort == 8080
CompletionTokens == 20
StatusOK == 200
StatusBadRequest == 400
CharsetLen == 62

Null == [tag |-> "null"]

Routes == {"chat", "embeddings", "models"}

(***************************************************************************)
(* Small helpers                                                           *)
(***************************************************************************)
Pow2(n) == 2 ^ n

\* true iff the string x occurs in the list
Contains(list, x) == \E i \in 1..Len(list) : list[i] = x

RECURSIVE SumSeq(_)
SumSeq(s) == IF s = <<>> THEN 0 ELSE Head(s) + SumSeq(Tail(s))

(***************************************************************************)
(* Configuration (main.go:114-170)                                         *)
(***************************************************************************)
Models(embedding, chat) == [Embedding |-> embedding, Chat |-> chat]

Config(p, lo, hi, models) ==
    [Port |-> p, MinLatency |-> lo, MaxLatency |-> hi, Models |-> models]

\* &Config{}: every field at its zero value
ZeroConfig == Config(0, 0, 0, Models(<<>>, <<>>))

\* the literal of main.go:38-46
DefaultConfig ==
    Config(defaultPort, 0, 0,
           Models(<<"text-embedding-ada-002">>, <<"gpt-3.5-turbo", "gpt-4">>))

\* time.ParseDuration on the strings that occur in the modelled files
ParseDuration(s) ==
    CASE s = "0s"  -> [ok |-> TRUE, d |-> 0]
      [] s = "1ms" -> [ok |-> TRUE, d |-> 1]
      [] s = "2ms" -> [ok |-> TRUE, d |-> 2]
      [] s = "3ms" -> [ok |-> TRUE, d |-> 3]
      [] OTHER     -> [ok |-> FALSE, d |-> 0]

\* The files the -config flag can name: absent, or a JSON document decoded
\* into ConfigFile (main.go:128-133).
ConfigPaths == {"", "missing.json", "broken.json", "config.json", "dup.json"}

FileSystem(path) ==
    CASE path = "config.json" ->
            [exists |-> TRUE, Port |-> 3000, MinLatency |-> "1ms",
             MaxLatency |-> "3ms", Models |-> Models(<<"c">>, <<"a", "b">>)]
      [] path = "dup.json" ->
            [exists |-> TRUE, Port |-> 8080, MinLatency |-> "0s",
             MaxLatency |-> "0s",
             Models |-> Models(<<"c", "a">>, <<"b", "a", "b">>)]
      [] path = "broken.json" ->
            [exists |-> TRUE, Port |-> 3000, MinLatency |-> "",
             MaxLatency |-> "3ms", Models |-> Models(<<"c">>, <<"a">>)]
      [] OTHER ->
            [exists |-> FALSE, Port |-> 0, MinLatency |-> "",
             MaxLatency |-> "", Models |-> Models(<<>>, <<>>)]

loadConfig(configPath) ==
    IF configPath = ""
    THEN [err |-> FALSE, config |-> ZeroConfig]
    ELSE LET file == FileSystem(configPath)
             lo == ParseDuration(file.MinLatency)
             hi == ParseDuration(file.MaxLatency)
         IN  IF ~file.exists \/ ~lo.ok \/ ~hi.ok
             THEN [err |-> TRUE, config |-> ZeroConfig]
             ELSE [err |-> FALSE,
                   config |-> Config(file.Port, lo.d, hi.d, file.Models)]

\* main.go:35-58: load, fall back to the defaults on error, apply the flags
resolveConfig(path, p, lo, hi) ==
    LET loaded == loadConfig(path)
        base == IF loaded.err THEN DefaultConfig ELSE loaded.config
    IN  Config(IF p # defaultPort THEN p ELSE base.Port,
               IF lo # 0 THEN lo ELSE base.MinLatency,
               IF hi # 0 THEN hi ELSE base.MaxLatency,
               base.Models)

(***************************************************************************)
(* Random sources.  math/rand's generators are replaced by small linear    *)
(* congruential ones with the same interface: a state, a step, and a       *)
(* float64 in [0,1) read off the state as k / FloatSteps.  The process-    *)
(* wide source (seeded at random since Go 1.20, the toolchain of the       *)
(* Dockerfile) and the private sources made by rand.New are different      *)
(* generators, as in the library.                                          *)
(***************************************************************************)
FloatSteps == 4       \* resolution of a modelled float64 in [0,1)
RngModulus == 16      \* states of a private source (rand.NewSource)
GlobalModulus == 4    \* states of the process-wide source
HashBits == 20        \* width kept of the int64 seed accumulator

\* rand.NewSource(seed)
NewSource(seed) == seed % RngModulus

rngStep(s) == (5 * s + 3) % RngModulus

\* numerator of the float64 read off a private source's state
rngFloat(s) == (s * FloatSteps) \div RngModulus

globalStep(g) == (g + 1) % GlobalModulus

\* numerator of rand.Float64() on the process-wide source, after the step
globalFloat(g) == (g * FloatSteps) \div GlobalModulus

\* rand.Intn(n) on the process-wide source, after the step
globalIntn(g, n) == (g * n) \div GlobalModulus

(***************************************************************************)
(* Strings as byte sequences                                               *)
(***************************************************************************)
Hello == <<72, 101, 108, 108, 111>>
DefaultInputText ==
    <<68, 101, 102, 97, 117, 108, 116, 32, 105, 110, 112, 117, 116, 32,
      116, 101, 120, 116>>
Abc == <<97, 98, 99>>
Hello9 == <<72, 101, 108, 108, 111, 33, 33, 33, 33>>
StrA == <<65>>
StrAz == <<65, 122>>

(***************************************************************************)
(* generateMockEmbedding (main.go:455-481)                                 *)
(***************************************************************************)
\* main.go:458-461: seed = seed*31 + int64(c), wrapping
RECURSIVE hashSeed(_, _)
hashSeed(seed, input) ==
    IF input = <<>> THEN seed
    ELSE hashSeed((seed * 31 + Head(input)) % Pow2(HashBits), Tail(input))

\* main.go:465-468: the raw values r.Float64()*2 - 1, as numerators over
\* FloatSteps, drawn one after the other from the source in state s
RECURSIVE drawRaw(_, _)
drawRaw(s, n) ==
    IF n = 0 THEN <<>>
    ELSE LET s1 == rngStep(s)
         IN  <<2 * rngFloat(s1) - FloatSteps>> \o drawRaw(s1, n - 1)

\* main.go:471-478: v / sqrt(sum of squares); IEEE 754 gives NaN for 0/0
normalize(raw) ==
    LET sum == SumSeq([i \in 1..Len(raw) |-> raw[i] * raw[i]])
    IN  [i \in 1..Len(raw) |->
            [nan |-> (sum = 0), num |-> raw[i], den2 |-> sum]]

\* a variant that draws from the process-wide source instead of a private one
generateMockEmbedding_shared(input, dimensions) ==
    normalize([i \in 1..dimensions |->
        2 * globalFloat((globalRand + i) % GlobalModulus) - FloatSteps])

generateMockEmbedding(input, dimensions) ==
    normalize(drawRaw(NewSource(hashSeed(0, input)), dimensions))

\* generateMockEmbedding(s, 1536) for every string the handler can be given,
\* tabulated
EmbedStrings == {StrA, StrAz, DefaultInputText}

embeddingOf ==
    [s \in EmbedStrings |-> generateMockEmbedding(s, EmbeddingDims)]

(***************************************************************************)
(* calculateTokens (main.go:446-453) and randomID (main.go:436-444)        *)
(***************************************************************************)
RECURSIVE calculateTokens(_)
calculateTokens(messages) ==
    IF messages = <<>> THEN 0
    ELSE (Len(Head(messages).Content) \div 4) + calculateTokens(Tail(messages))

\* the characters drawn (as indexes into the charset) and the source's state
\* after the draws
RECURSIVE randomID(_, _)
randomID(length, g) ==
    IF length = 0 THEN [id |-> <<>>, rand |-> g]
    ELSE LET g1 == globalStep(g)
             rest == randomID(length - 1, g1)
         IN  [id |-> <<globalIntn(g1, CharsetLen)>> \o rest.id,
              rand |-> rest.rand]

(***************************************************************************)
(* Request bodies and c.ShouldBindJSON (main.go:234-238, 311-315).         *)
(*                                                                         *)
(* A body is the text of the request: syntax says whether it is a JSON     *)
(* document at all; each field is absent, null, of the wrong JSON type for  *)
(* the Go field, or a value.  encoding/json reads the whole document       *)
(* before it assigns anything, so a syntax error leaves the struct at its  *)
(* zero value; a field of the wrong type is skipped, the error is          *)
(* remembered and the remaining fields are still assigned.                 *)
(***************************************************************************)
Absent == [tag |-> "absent", val |-> <<>>]
JsonNull == [tag |-> "null", val |-> <<>>]
WrongType == [tag |-> "wrong", val |-> <<>>]
Value(v) == [tag |-> "value", val |-> v]

\* a Go slice: nil, or a (possibly empty) sequence of items
NilSlice == [nil |-> TRUE, items |-> <<>>]
Slice(items) == [nil |-> FALSE, items |-> items]

Message(role, content) == [Role |-> role, Content |-> content]

\* main.go:291
CannedReply ==
    "This is a mock response from the OpenAI API emulator. Your request has been processed successfully."

ModelFields == {Absent, WrongType, Value(""), Value("a"), Value("zz")}

MessagesFields ==
    {Absent, JsonNull, WrongType, Value(<<>>),
     Value(<<Message("system", Abc), Message("user", Hello9)>>)}

InputFields ==
    {Absent, WrongType, Value(<<>>), Value(<<StrA>>), Value(<<StrAz, StrA>>)}

\* Every JSON document over the fields above, and two texts that are not
\* JSON: an empty one, and one in which a model and a list can be read but
\* the document never ends.
ChatBodies ==
    [syntax : {TRUE}, model : ModelFields, list : MessagesFields]
    \cup {[syntax |-> FALSE, model |-> Absent, list |-> Absent],
          [syntax |-> FALSE, model |-> Value("zz"),
           list |-> Value(<<Message("system", Abc), Message("user", Hello9)>>)]}

EmbeddingBodies ==
    [syntax : {TRUE}, model : ModelFields, list : InputFields]
    \cup {[syntax |-> FALSE, model |-> Absent, list |-> Absent],
          [syntax |-> FALSE, model |-> Value("zz"),
           list |-> Value(<<StrAz, StrA>>)]}

decodeString(f) == IF f.tag = "value" THEN f.val ELSE ""

decodeSlice(f) == IF f.tag = "value" THEN Slice(f.val) ELSE NilSlice

\* a variant that throws the whole struct away when any field fails to decode
ShouldBindJSON_allOrNothing(body) ==
    IF ~body.syntax \/ body.model.tag = "wrong" \/ body.list.tag = "wrong"
    THEN [Model |-> "", List |-> NilSlice, err |-> TRUE]
    ELSE [Model |-> decodeString(body.model),
          List  |-> decodeSlice(body.list),
          err   |-> FALSE]

\* the request struct after binding (Messages or Input is field List) and
\* whether binding reported an error
ShouldBindJSON(body) ==
    IF ~body.syntax
    THEN [Model |-> "", List |-> NilSlice, err |-> TRUE]
    ELSE [Model |-> decodeString(body.model),
          List  |-> decodeSlice(body.list),
          err   |-> (body.model.tag = "wrong" \/ body.list.tag = "wrong")]

(***************************************************************************)
(* The handlers (main.go:233-432), as functions of the configuration, the  *)
(* body and the state of the process-wide random source.  Each returns the *)
(* status and the JSON value handed to c.JSON, and the source's new state. *)
(***************************************************************************)
\* a variant that only looks at the first configured model
modelSupported_firstOnly(list, model) ==
    list # <<>> /\ list[1] = model

\* main.go:241-247, 318-324
modelSupported(list, model) ==
    \E i \in 1..Len(list) : list[i] = model

\* main.go:250-257, 327-334
errorEnvelope(model) ==
    [error |-> [message |-> <<"The model '", model, "' does not exist">>,
                type    |-> "invalid_request_error",
                param   |-> "model",
                code    |-> "model_not_found"]]

\* a variant that falls back to the last configured model
defaultModel_last(list, model) ==
    IF model = "" /\ Len(list) > 0 THEN list[Len(list)] ELSE model

\* main.go:262-264, 339-341
defaultModel(list, model) ==
    IF model = "" /\ Len(list) > 0 THEN list[1] ELSE model

\* main.go:267-274
defaultMessages(messages) ==
    IF messages.nil THEN <<Message("user", Hello)>> ELSE messages.items

\* main.go:344-346
defaultInput(input) ==
    IF input.nil THEN <<DefaultInputText>> ELSE input.items

handleChatCompletions(cfg, body, g) ==
    LET req == ShouldBindJSON(body)
    IN  IF ~modelSupported(cfg.Models.Chat, req.Model) /\ req.Model # ""
        THEN [status |-> StatusBadRequest,
              response |-> errorEnvelope(req.Model),
              rand |-> g]
        ELSE LET model == defaultModel(cfg.Models.Chat, req.Model)
                 messages == defaultMessages(req.List)
                 id == randomID(IdLength, g)
             IN  [status |-> StatusOK,
                  response |->
                     [ID |-> id.id,
                      Object |-> "chat.completion",
                      Model |-> model,
                      Choices |-> <<[Index |-> 0,
                                     Message |-> Message("assistant", CannedReply),
                                     FinishReason |-> "stop"]>>,
                      Usage |-> [PromptTokens |-> calculateTokens(messages),
                                 CompletionTokens |-> CompletionTokens,
                                 TotalTokens |-> calculateTokens(messages)
                                                   + CompletionTokens]],
                  rand |-> id.rand]

\* main.go:367-385: one data entry per input, tokens accumulated
embeddingData(input) ==
    [i \in 1..Len(input) |->
        [Object |-> "embedding",
         Embedding |-> embeddingOf[input[i]],
         Index |-> i - 1]]

embeddingTokens(input) ==
    SumSeq([i \in 1..Len(input) |-> Len(input[i]) \div 4])

handleEmbeddings(cfg, body, g) ==
    LET req == ShouldBindJSON(body)
    IN  IF ~modelSupported(cfg.Models.Embedding, req.Model) /\ req.Model # ""
        THEN [status |-> StatusBadRequest,
              response |-> errorEnvelope(req.Model),
              rand |-> g]
        ELSE LET model == defaultModel(cfg.Models.Embedding, req.Model)
                 input == defaultInput(req.List)
             IN  [status |-> StatusOK,
                  response |->
                     [Object |-> "list",
                      Data |-> embeddingData(input),
                      Model |-> model,
                      Usage |-> [PromptTokens |-> embeddingTokens(input),
                                 TotalTokens |-> embeddingTokens(input)]],
                  rand |-> g]

modelEntry(id) == [ID |-> id, Object |-> "model", OwnedBy |-> "openai"]

\* main.go:402-429: append one entry per model, list after list
RECURSIVE appendModels(_, _)
appendModels(data, list) ==
    IF list = <<>> THEN data
    ELSE appendModels(Append(data, modelEntry(Head(list))), Tail(list))

\* a variant that lists the embedding models first
handleModels_embeddingFirst(cfg, g) ==
    [status |-> StatusOK,
     response |->
        [Object |-> "list",
         Data |-> appendModels(appendModels(<<>>, cfg.Models.Embedding),
                               cfg.Models.Chat)],
     rand |-> g]

handleModels(cfg, g) ==
    [status |-> StatusOK,
     response |->
        [Object |-> "list",
         Data |-> appendModels(appendModels(<<>>, cfg.Models.Chat),
                               cfg.Models.Embedding)],
     rand |-> g]

(***************************************************************************)
(* simulateLatencyMiddleware (main.go:100-112)                             *)
(***************************************************************************)
\* a variant that sleeps for max when the ordering min <= max is violated
latency_useMax(min, max, f) ==
    IF max > min THEN min + ((max - min) * f) \div FloatSteps ELSE max

\* main.go:103-107: the duration handed to time.Sleep; f is the numerator of
\* rand.Float64(), and time.Duration(...) truncates
latency(min, max, f) ==
    IF max > min THEN min + ((max - min) * f) \div FloatSteps ELSE min

(***************************************************************************)
(* State                                                                   *)
(***************************************************************************)
FlagPorts == {defaultPort, 9090}
FlagLatencies == {0, 2}

\* the input strings a client sends in the modelled bodies
EmbedInputs == {StrA, StrAz}

Idle == [pc |-> "idle", route |-> "none", remaining |-> 0, status |-> 0]

NoExchange ==
    [route |-> "none", body |-> Null, status |-> 0, response |-> Null]

\* The state after package initialisation: init() has parsed the flags
\* (main.go:25-31), main has not run yet.
Init ==
    /\ port \in FlagPorts
    /\ minLatency \in FlagLatencies
    /\ maxLatency \in FlagLatencies
    /\ configFile \in ConfigPaths
    /\ config = Null
    /\ started = FALSE
    /\ globalRand \in 0..(GlobalModulus - 1)
    /\ reqs = [r \in Slots |-> Idle]
    /\ exchange = NoExchange
    /\ embedLog = [s \in EmbedInputs |-> <<>>]

\* main.go:33-61: resolve the configuration and build the router
Main ==
    /\ ~started
    /\ config' = resolveConfig(configFile, port, minLatency, maxLatency)
    /\ started' = TRUE
    /\ UNCHANGED <<flagVars, globalRand, reqs, exchange, embedLog>>

(***************************************************************************)
(* The server: net/http runs every accepted request in a goroutine of its  *)
(* own; gin runs the latency middleware, then the route's handler          *)
(* (main.go:72-98).  Slots are numbered in order of arrival.               *)
(***************************************************************************)
Accept(r) ==
    /\ started
    /\ reqs[r].pc = "idle"
    /\ \A q \in Slots : q < r => reqs[q].pc # "idle"
    /\ \E route \in Routes :
          reqs' = [reqs EXCEPT ![r] = [Idle EXCEPT !.pc = "middleware",
                                                   !.route = route]]
    /\ UNCHANGED <<flagVars, config, started, globalRand, exchange, embedLog>>

\* a variant in which the delay is taken under a process-wide lock
simulateLatencyMiddleware_locked(r) ==
    /\ reqs[r].pc = "middleware"
    /\ \A q \in Slots : reqs[q].pc # "sleeping"
    /\ IF config.MinLatency > 0
       THEN /\ reqs' = [reqs EXCEPT ![r].pc = "sleeping",
                                    ![r].remaining = config.MinLatency]
            /\ UNCHANGED globalRand
       ELSE /\ reqs' = [reqs EXCEPT ![r].pc = "handler"]
            /\ UNCHANGED globalRand
    /\ UNCHANGED <<flagVars, config, started, exchange, embedLog>>

\* a variant in which the delay is registered on the POST routes only
simulateLatencyMiddleware_postOnly(r) ==
    /\ reqs[r].pc = "middleware"
    /\ IF config.MinLatency > 0 /\ reqs[r].route # "models"
       THEN IF config.MaxLatency > config.MinLatency
            THEN LET g1 == globalStep(globalRand)
                 IN  /\ reqs' = [reqs EXCEPT
                            ![r].pc = "sleeping",
                            ![r].remaining = latency(config.MinLatency,
                                                     config.MaxLatency,
                                                     globalFloat(g1))]
                     /\ globalRand' = g1
            ELSE /\ reqs' = [reqs EXCEPT
                        ![r].pc = "sleeping",
                        ![r].remaining = latency(config.MinLatency,
                                                 config.MaxLatency, 0)]
                 /\ UNCHANGED globalRand
       ELSE /\ reqs' = [reqs EXCEPT ![r].pc = "handler"]
            /\ UNCHANGED globalRand
    /\ UNCHANGED <<flagVars, config, started, exchange, embedLog>>

\* main.go:101-110 up to the call of time.Sleep; with min <= 0 the handler is
\* next at once
simulateLatencyMiddleware(r) ==
    /\ reqs[r].pc = "middleware"
    /\ IF config.MinLatency > 0
       THEN IF config.MaxLatency > config.MinLatency
            THEN LET g1 == globalStep(globalRand)
                 IN  /\ reqs' = [reqs EXCEPT
                            ![r].pc = "sleeping",
                            ![r].remaining = latency(config.MinLatency,
                                                     config.MaxLatency,
                                                     globalFloat(g1))]
                     /\ globalRand' = g1
            ELSE /\ reqs' = [reqs EXCEPT
                        ![r].pc = "sleeping",
                        ![r].remaining = latency(config.MinLatency,
                                                 config.MaxLatency, 0)]
                 /\ UNCHANGED globalRand
       ELSE /\ reqs' = [reqs EXCEPT ![r].pc = "handler"]
            /\ UNCHANGED globalRand
    /\ UNCHANGED <<flagVars, config, started, exchange, embedLog>>

\* one tick of time passes for every goroutine inside time.Sleep
Tick ==
    /\ \E r \in Slots : reqs[r].pc = "sleeping" /\ reqs[r].remaining > 0
    /\ reqs' = [r \in Slots |->
                  IF reqs[r].pc = "sleeping" /\ reqs[r].remaining > 0
                  THEN [reqs[r] EXCEPT !.remaining = @ - 1]
                  ELSE reqs[r]]
    /\ UNCHANGED <<flagVars, config, started, globalRand, exchange, embedLog>>

\* time.Sleep returns once the duration has passed; c.Next() (main.go:110)
Wake(r) ==
    /\ reqs[r].pc = "sleeping"
    /\ reqs[r].remaining = 0
    /\ reqs' = [reqs EXCEPT ![r].pc = "handler"]
    /\ UNCHANGED <<flagVars, config, started, globalRand, exchange, embedLog>>

Respond(r, out) ==
    /\ reqs' = [reqs EXCEPT ![r].pc = "done", ![r].status = out.status]
    /\ globalRand' = out.rand
    /\ UNCHANGED <<flagVars, config, started, exchange, embedLog>>

ServeChatCompletions(r) ==
    /\ reqs[r].pc = "handler"
    /\ reqs[r].route = "chat"
    /\ \E out \in {handleChatCompletions(config, body, globalRand) :
                       body \in ChatBodies} :
          Respond(r, out)

ServeEmbeddings(r) ==
    /\ reqs[r].pc = "handler"
    /\ reqs[r].route = "embeddings"
    /\ \E out \in {handleEmbeddings(config, body, globalRand) :
                       body \in EmbeddingBodies} :
          Respond(r, out)

ServeModels(r) ==
    /\ reqs[r].pc = "handler"
    /\ reqs[r].route = "models"
    /\ Respond(r, handleModels(config, globalRand))

Next ==
    \/ Main
    \/ \E r \in Slots : Accept(r)
    \/ \E r \in Slots : simulateLatencyMiddleware(r)
    \/ Tick
    \/ \E r \in Slots : Wake(r)
    \/ \E r \in Slots : ServeChatCompletions(r)
    \/ \E r \in Slots : ServeEmbeddings(r)
    \/ \E r \in Slots : ServeModels(r)

\* the server started on the default port, with no config file, with one
\* that cannot be read, or with config.json
InitServer ==
    /\ Init
    /\ port = defaultPort
    /\ configFile \in {"", "missing.json", "config.json"}

Spec == InitServer /\ [][Next]_vars

\* The server under fair scheduling.  The Go scheduler runs every runnable
\* goroutine, so a request that can take its next step (the latency stage,
\* the wake-up after time.Sleep, its handler) eventually takes it, and time
\* passes while a goroutine sleeps.  Nothing obliges a client to send a
\* request: Accept is not fair.
\* the next step of request r's goroutine; at most one disjunct is enabled
RequestStep(r) ==
    \/ simulateLatencyMiddleware(r)
    \/ Wake(r)
    \/ ServeChatCompletions(r)
    \/ ServeEmbeddings(r)
    \/ ServeModels(r)

Fairness ==
    /\ WF_vars(Tick)
    /\ \A r \in Slots : WF_vars(RequestStep(r))

SpecLive == InitServer /\ [][Next]_vars /\ Fairness

\* start-up alone, over every combination of flags and files
NextStartup == Main

SpecStartup == Init /\ [][NextStartup]_vars

(***************************************************************************)
(* The handlers one call at a time, over every body, with the request and  *)
(* the response of the last call kept in exchange.  embedLog remembers,    *)
(* per input string, the vectors of the last MaxCalls calls of             *)
(* generateMockEmbedding.                                                  *)
(***************************************************************************)
Exchange(route, body, out) ==
    [route |-> route, body |-> body, status |-> out.status,
     response |-> out.response]

LastCalls(log) ==
    IF Len(log) <= MaxCalls THEN log
    ELSE SubSeq(log, Len(log) - MaxCalls + 1, Len(log))

\* the vectors returned for input string s in one handler call
RECURSIVE vectorsFor(_, _, _)
vectorsFor(s, input, data) ==
    IF input = <<>> THEN <<>>
    ELSE (IF Head(input) = s THEN <<Head(data).Embedding>> ELSE <<>>)
         \o vectorsFor(s, Tail(input), Tail(data))

CallChatCompletions ==
    /\ started
    /\ \E body \in ChatBodies :
          LET out == handleChatCompletions(config, body, globalRand)
          IN  /\ exchange' = Exchange("chat", body, out)
              /\ globalRand' = out.rand
    /\ UNCHANGED <<flagVars, config, started, reqs, embedLog>>

CallEmbeddings ==
    /\ started
    /\ \E body \in EmbeddingBodies :
          LET out == handleEmbeddings(config, body, globalRand)
              input == defaultInput(ShouldBindJSON(body).List)
          IN  /\ exchange' = Exchange("embeddings", body, out)
              /\ globalRand' = out.rand
              /\ embedLog' =
                    IF out.status = StatusOK
                    THEN [s \in EmbedInputs |->
                            LastCalls(embedLog[s] \o
                                vectorsFor(s, input, out.response.Data))]
                    ELSE embedLog
    /\ UNCHANGED <<flagVars, config, started, reqs>>

CallModels ==
    /\ started
    /\ LET out == handleModels(config, globalRand)
       IN  /\ exchange' = Exchange("models", Null, out)
           /\ globalRand' = out.rand
    /\ UNCHANGED <<flagVars, config, started, reqs, embedLog>>

NextHandlers ==
    \/ Main
    \/ CallChatCompletions
    \/ CallEmbeddings
    \/ CallModels

\* started without command-line overrides
InitHandlers ==
    /\ Init
    /\ port = defaultPort
    /\ minLatency = 0
    /\ maxLatency = 0

SpecHandlers == InitHandlers /\ [][NextHandlers]_vars

(***************************************************************************)
(* What a request asks for, read off the body's text                       *)
(***************************************************************************)
\* the model string of the request
BodyModel(body) ==
    IF body.syntax /\ body.model.tag = "value" THEN body.model.val ELSE ""

\* the body is not JSON, or is JSON that does not fit the request type
Malformed(body) ==
    ~body.syntax \/ body.model.tag = "wrong" \/ body.list.tag = "wrong"

\* the configured list of the kind the route validates against
ListFor(route) ==
    IF route = "chat" THEN config.Models.Chat ELSE config.Models.Embedding

FirstOrEmpty(list) == IF list = <<>> THEN "" ELSE list[1]

Posted == exchange.route \in {"chat", "embeddings"}

\* per-message truncating estimate, written as a sum over indexes
TokenSum(messages) ==
    SumSeq([i \in 1..Len(messages) |-> Len(messages[i].Content) \div 4])

(***************************************************************************)
(* C1: on both POST routes a listed model gets 200; a non-empty unlisted   *)
(* model gets 400 with the model_not_found envelope naming the model; an   *)
(* empty model never gets 400.                                             *)
(***************************************************************************)
C1_ModelValidation ==
    Posted =>
        LET m == BodyModel(exchange.body)
            listed == Contains(ListFor(exchange.route), m)
        IN  /\ listed => exchange.status = StatusOK
            /\ (m # "" /\ ~listed) =>
                  /\ exchange.status = StatusBadRequest
                  /\ exchange.response.error.code = "model_not_found"
                  /\ exchange.response.error.type = "invalid_request_error"
                  /\ exchange.response.error.param = "model"
                  /\ exchange.response.error.message[2] = m
            /\ m = "" => exchange.status # StatusBadRequest

C1_Witness ==
    /\ exchange.route = "embeddings"
    /\ exchange.status = StatusBadRequest
    /\ config.Models.Embedding # <<>>

(***************************************************************************)
(* C2: started with no config file path and no command-line overrides,    *)
(* the configuration handed to the router is port 8080, zero latency, the  *)
(* one default embedding model and the two default chat models.            *)
(***************************************************************************)
C2_DefaultsWithoutConfig ==
    (started /\ configFile = "" /\ port = defaultPort
             /\ minLatency = 0 /\ maxLatency = 0) =>
        /\ config.Port = 8080
        /\ config.MinLatency = 0
        /\ config.MaxLatency = 0
        /\ config.Models.Embedding = <<"text-embedding-ada-002">>
        /\ config.Models.Chat = <<"gpt-3.5-turbo", "gpt-4">>

(***************************************************************************)
(* C3: the delay d the latency stage injects is 0 when minLatency = 0;     *)
(* lies in [minLatency, maxLatency] when maxLatency > minLatency > 0; and  *)
(* is exactly minLatency when minLatency > 0 and maxLatency <= minLatency. *)
(***************************************************************************)
C3_LatencyBounds ==
    [][\A r \in Slots :
          (reqs[r].pc = "middleware" /\ reqs'[r].pc # "middleware") =>
             LET lo == config.MinLatency
                 hi == config.MaxLatency
                 d  == IF reqs'[r].pc = "sleeping"
                       THEN reqs'[r].remaining ELSE 0
             IN  /\ lo = 0 => (d = 0 /\ reqs'[r].pc = "handler")
                 /\ (hi > lo /\ lo > 0) => (lo <= d /\ d <= hi)
                 /\ (lo > 0 /\ hi <= lo) => d = lo]_vars

C3_Witness ==
    \E r \in Slots :
        /\ reqs[r].pc = "sleeping"
        /\ config.MaxLatency > config.MinLatency
        /\ reqs[r].remaining > config.MinLatency

(***************************************************************************)
(* C4: any two calls of the embedding generator on the same string return  *)
(* the same vector, whatever was handled in between.                       *)
(***************************************************************************)
C4_EmbeddingDeterministic ==
    \A s \in EmbedInputs :
        \A i, j \in 1..Len(embedLog[s]) : embedLog[s][i] = embedLog[s][j]

C4_Witness ==
    /\ Len(embedLog[StrAz]) >= 2
    /\ exchange.route = "chat"
    /\ exchange.status = StatusOK

(***************************************************************************)
(* C5: when every drawn raw value is zero the division by the norm is      *)
(* guarded: the returned vector is all-zero and no component is NaN.       *)
(***************************************************************************)
C5_ZeroNormGuarded ==
    (exchange.route = "embeddings" /\ exchange.status = StatusOK) =>
        \A i \in 1..Len(exchange.response.Data) :
            \A k \in 1..EmbeddingDims :
                ~exchange.response.Data[i].Embedding[k].nan

C7_ModelOfResponse ==
    (Posted /\ exchange.status = StatusOK) =>
        LET m == BodyModel(exchange.body)
            list == ListFor(exchange.route)
        IN  exchange.response.Model
               = IF m # "" THEN m
                 ELSE IF Len(list) > 0 THEN list[1] ELSE ""

C7_ResolvedModel ==
    /\ []C7_ModelOfResponse
    /\ [][started => config' = config]_vars

C7_Witness ==
    /\ Posted
    /\ exchange.status = StatusOK
    /\ BodyModel(exchange.body) = ""
    /\ Len(ListFor(exchange.route)) > 1
    /\ exchange.response.Model = ListFor(exchange.route)[1]

(***************************************************************************)
(* C8: a 200 chat response counts the effective messages: the synthesized  *)
(* {user, "Hello"} (promptTokens = 1) when the request has no messages     *)
(* (field missing, or present but an empty list), else the request's       *)
(* messages; promptTokens is the sum of length(content) / 4 truncated per  *)
(* message, completionTokens = 20, totalTokens their sum.                  *)
(***************************************************************************)
C8_ChatUsage ==
    (exchange.route = "chat" /\ exchange.status = StatusOK) =>
        LET body == exchange.body
            none == ~(body.syntax /\ body.list.tag = "value"
                                  /\ body.list.val # <<>>)
            effective == IF none THEN <<Message("user", Hello)>>
                         ELSE body.list.val
            usage == exchange.response.Usage
        IN  /\ none => usage.PromptTokens = 1
            /\ usage.PromptTokens = TokenSum(effective)
            /\ usage.CompletionTokens = 20
            /\ usage.TotalTokens = usage.PromptTokens + usage.CompletionTokens

(***************************************************************************)
(* C9: GET /v1/models answers 200 with len(chat) + len(embedding) entries: *)
(* the chat models in configured order, then the embedding models in       *)
(* configured order, duplicates kept.                                      *)
(***************************************************************************)
C9_ModelsListing ==
    exchange.route = "models" =>
        LET chat == config.Models.Chat
            embedding == config.Models.Embedding
            data == exchange.response.Data
        IN  /\ exchange.status = StatusOK
            /\ Len(data) = Len(chat) + Len(embedding)
            /\ \A i \in 1..Len(chat) : data[i].ID = chat[i]
            /\ \A i \in 1..Len(embedding) :
                  data[Len(chat) + i].ID = embedding[i]

C9_Witness ==
    /\ exchange.route = "models"
    /\ Len(exchange.response.Data) = 5
    /\ exchange.response.Data[1].ID = exchange.response.Data[3].ID

(***************************************************************************)
(* C10: a request in its injected delay holds nothing another request      *)
(* needs: while one request sleeps, every other request can take its next  *)
(* step (be accepted, pass the latency stage, wake, run its handler), so a *)
(* later arrival can finish first.                                         *)
(***************************************************************************)
C10_DelaySuspendsOnlyItsRequest ==
    \A a, b \in Slots :
        (a # b /\ reqs[a].pc = "sleeping") =>
            /\ (reqs[b].pc = "idle" /\ \A q \in Slots : q < b => reqs[q].pc # "idle")
                  => ENABLED Accept(b)
            /\ reqs[b].pc = "middleware"
                  => ENABLED simulateLatencyMiddleware(b)
            /\ (reqs[b].pc = "sleeping" /\ reqs[b].remaining = 0)
                  => ENABLED Wake(b)
            /\ (reqs[b].pc = "handler" /\ reqs[b].route = "chat")
                  => ENABLED ServeChatCompletions(b)
            /\ (reqs[b].pc = "handler" /\ reqs[b].route = "embeddings")
                  => ENABLED ServeEmbeddings(b)
            /\ (reqs[b].pc = "handler" /\ reqs[b].route = "models")
                  => ENABLED ServeModels(b)

\* the later arrival b has its response while the earlier a is still asleep
C10_Witness ==
    \E a, b \in Slots :
        /\ a < b
        /\ reqs[a].pc = "sleeping"
        /\ reqs[a].remaining > 0
        /\ reqs[b].pc = "done"
        /\ reqs[b].status = StatusOK

(***************************************************************************)
(* C11: every accepted request runs to completion.  It passes the latency  *)
(* stage first (sleeping at least minLatency whenever minLatency > 0,      *)
(* whatever its route and whatever the answer will be), then the one       *)
(* handler of its route, and gets exactly one response: 200, or 400 on the *)
(* two POST routes only.  Under fair scheduling it does not stay in the    *)
(* delay or in a handler forever.                                          *)
(***************************************************************************)
C11_Stages(r) ==
    LET p == reqs[r].pc
        q == reqs'[r].pc
    IN  /\ p # "idle" => reqs'[r].route = reqs[r].route
        /\ p = "done" => reqs'[r] = reqs[r]
        /\ p # q =>
              \/ p = "idle" /\ q = "middleware" /\ reqs'[r].route \in Routes
              \/ /\ p = "middleware" /\ q = "sleeping"
                 /\ config.MinLatency > 0
                 /\ reqs'[r].remaining >= config.MinLatency
              \/ p = "middleware" /\ q = "handler" /\ config.MinLatency = 0
              \/ p = "sleeping" /\ q = "handler" /\ reqs[r].remaining = 0
              \/ /\ p = "handler" /\ q = "done"
                 /\ reqs'[r].status \in {StatusOK, StatusBadRequest}
                 /\ reqs'[r].status = StatusBadRequest
                       => reqs[r].route \in {"chat", "embeddings"}

C11_RunsToCompletion ==
    /\ [][\A r \in Slots : C11_Stages(r)]_vars
    /\ \A r \in Slots : (reqs[r].pc # "idle") ~> (reqs[r].pc = "done")

\* both kinds of request the claim singles out have been delayed and
\* answered: a GET /v1/models and a POST answered 400
C11_Witness ==
    /\ started
    /\ config.MinLatency > 0
    /\ \E a, b \in Slots :
          /\ reqs[a].pc = "done" /\ reqs[a].route = "models"
          /\ reqs[b].pc = "done" /\ reqs[b].status = StatusBadRequest

====
